---------------------------- MODULE Spec2Model ----------------------------
(***************************************************************************)
(* Conductor shapes of the NEMA connector diagrams (conductors.py): the    *)
(* seven shape classes, their constructors and their draw methods; and the *)
(* devices of make_svgs.py, which compose shapes into one diagram per side *)
(* (NEMABase: draw, draw_receptacle, draw_plug, save).                     *)
(*                                                                         *)
(* Numbers.  Lengths are Python ints drawn from the multiples of 2, so     *)
(* that every true division by 2 in the source (width/2, height/2, ...)    *)
(* is exact and is computed here by TrueDiv2.  Angles stay in degrees      *)
(* inside a symbolic radian value (deg * pi / 180), and points obtained    *)
(* from cmath.rect stay symbolic polar terms: no trigonometric value is    *)
(* ever approximated.                                                      *)
(***************************************************************************)
EXTENDS Integers, Sequences, FiniteSets, TLC

VARIABLES obj,      \* the shape object the caller holds, or NoObj
          call,     \* the constructor call made last: class and arguments
          last,     \* the outcome of the last operation (constructor or draw)
          log,      \* per color: what draw returned last for obj with that color
          ndraws,   \* draw calls made on obj
          device,   \* the device object the caller holds, or NoDevice
          ret,      \* the outcome of the last call on device
          files,    \* per side: the diagram saved to that side's file, if any
          entered   \* the sides NEMABase.draw has been called for on device

svars == <<obj, call, last, log, ndraws>>
dvars == <<device, ret, files, entered>>
vars == <<obj, call, last, log, ndraws, device, ret, files, entered>>

\* The field names of the records below, in the order every record lists them
Fields ==
    [cls |-> "a shape: its class", width |-> 0, height |-> 0, radius |-> 0,
     crossbar_length |-> 0, vertical_length |-> 0, start |-> 0, end |-> 0,
     sweep_dir |-> 0, x_sign |-> 0, y_sign |-> 0, x_first |-> 0,
     angle_dir |-> 0, start_angle |-> 0, hook_angle |-> 0,
     hook_outer_offset |-> 0, hook_length |-> 0, hook_width |-> 0,
     x |-> 0, y |-> 0, rotation |-> 0,
     op |-> "an outcome: the operation", color |-> 0, out |-> 0,
     err |-> "what was raised", self |-> 0, elem |-> 0, attrs |-> 0,
     cmds |-> 0,
     fill |-> "an attribute", stroke |-> 0, stroke_width |-> 0,
     transform |-> 0,
     c |-> "a command", kind |-> 0, v |-> 0, args |-> 0,
     pi_frac |-> "an angle", asin |-> 0, half_pi |-> 0,
     r |-> "a polar term", phi |-> 0,
     part |-> "a coordinate", z |-> 0,
     receptacle_diameter |-> "a device", plug_diameter |-> 0,
     conductors |-> 0,
     elems |-> "a diagram", drawing_width |-> 0]

---------------------------------------------------------------------------
(* Bounds of the model *)

MaxDimHalf == 2
MaxCoordHalf == 1
MaxRadius == 3
MaxOffset == 4
MaxDraws == 2
MaxConductors == 2

Dims == {2 * k : k \in -1..MaxDimHalf}
NonNegDims == {2 * k : k \in 0..MaxDimHalf}
PosDims == {2 * k : k \in 1..MaxDimHalf}
Coords == {2 * k : k \in -MaxCoordHalf..MaxCoordHalf}
Radii == 1..MaxRadius
Rotations == {0, 90}
Colors == {"black", "white", "green"}
SweepDirs == {"+", "-", "cw"}
Points == Coords \X Coords
Angles == {-95, -53, 0, 90}
HookAngles == {-180, 0}
Offsets == -MaxOffset..MaxOffset
HookLengths == {-1, 0, 1}
HookWidths == {<<>>, <<1>>}

---------------------------------------------------------------------------
(* Values *)

NoObj == [cls |-> "None"]

NoWidth == [kind |-> "unset", v |-> 0]
NoTransform == [kind |-> "unset", args |-> <<>>]
NoAttrs == [fill |-> "", stroke |-> "", stroke_width |-> NoWidth,
            transform |-> NoTransform]

NoOut == [err |-> "", elem |-> "", attrs |-> NoAttrs, cmds |-> <<>>]

\* draw raised: nothing is returned
Raise(e) == [err |-> e, elem |-> "", attrs |-> NoAttrs, cmds |-> <<>>]

\* draw returned an element
Return(elem, attrs, cmds) ==
    [err |-> "", elem |-> elem, attrs |-> attrs, cmds |-> cmds]

Cmd(c, args) == [c |-> c, args |-> args]

Abs(x) == IF x < 0 THEN -x ELSE x

\* x / 2 on a multiple of 2
TrueDiv2(x) == x \div 2

\* math.copysign(x, y) on ints: the magnitude of x with the sign of y
copysign(x, y) == IF y >= 0 THEN Abs(x) ELSE -Abs(x)

\* What the source raises
NameError == "NameError: name 'OUTLINE_WIDTH' is not defined"
InvalidSweepDir == "ValueError: Invalid sweep_dir"
WhiteL == "AssertionError: White L conductors not yet implemented."
WhiteT == "AssertionError: White T conductors not yet implemented."
WhiteArc == "AssertionError: White arc conductors not yet implemented."
AssertFalse == "AssertionError"
MathDomainError == "ValueError: math domain error"
ZeroDivisionError == "ZeroDivisionError: float division by zero"

\* the names bound in the module namespace of conductors.py
conductors_globals ==
    {"cmath", "math", "DConductor", "IConductor", "LConductor", "OConductor",
     "TConductor", "ArcConductor", "ArcConductorWithHook"}

\* svgwrite's defaults for the arguments a push_arc call leaves out
push_arc_large_arc_default == TRUE
push_arc_absolute_default == FALSE

\* svgwrite's Path.push_arc: one arc command, flags as 0 / 1
push_arc(target, rotation, r, large_arc, angle_dir, absolute) ==
    Cmd(IF absolute THEN "A" ELSE "a",
        <<r, r, rotation,
          IF large_arc THEN 1 ELSE 0,
          IF angle_dir = "+" THEN 1 ELSE 0,
          target[1], target[2]>>)

---------------------------------------------------------------------------
(* DConductor *)

DConductor_init(width, height, x, y, rotation) ==
    [err |-> "",
     self |-> [cls |-> "DConductor", width |-> width, height |-> height,
              x |-> x, y |-> y, rotation |-> rotation]]

DConductor_transform(self) ==
    IF self.rotation = 0 THEN NoTransform
    ELSE IF self.y = 0
         THEN [kind |-> "translate({}) rotate({})",
               args |-> <<self.x, self.rotation>>]
         ELSE [kind |-> "translate({} {}) rotate({})",
               args |-> <<self.x, self.y, self.rotation>>]

\* which sides are straight: the horizontal ones unless the height is larger
DConductor_horizontal_strict(self) == self.width > self.height

DConductor_horizontal(self) == self.width >= self.height

DConductor_path(self) ==
    LET x_offset == IF self.rotation = 0 THEN self.x ELSE 0
        y_offset == IF self.rotation = 0 THEN self.y ELSE 0
        start == Cmd("M", <<x_offset - TrueDiv2(self.width),
                            y_offset - TrueDiv2(self.height)>>)
    IN  IF DConductor_horizontal(self)
        THEN LET side_length == self.width - TrueDiv2(self.height)
             IN  <<start,
                   Cmd("h", <<side_length>>),
                   push_arc(<<0, self.height>>, 0, TrueDiv2(self.height),
                            push_arc_large_arc_default, "+",
                            push_arc_absolute_default),
                   Cmd("h", <<-side_length>>),
                   Cmd("Z", <<>>)>>
        ELSE LET side_length == self.height - TrueDiv2(self.width)
             IN  <<start,
                   Cmd("v", <<side_length>>),
                   push_arc(<<self.width, 0>>, 0, TrueDiv2(self.width),
                            push_arc_large_arc_default, "-",
                            push_arc_absolute_default),
                   Cmd("v", <<-side_length>>),
                   Cmd("Z", <<>>)>>

\* the white branch shared by the filled shapes: a black stroke of
\* OUTLINE_WIDTH, a name conductors.py reads and does not bind
WhiteOutline(attrs) ==
    [attrs EXCEPT !.stroke = "black",
                  !.stroke_width = [kind |-> "OUTLINE_WIDTH", v |-> 0]]

DConductor_draw(self, color) ==
    IF color = "white" /\ "OUTLINE_WIDTH" \notin conductors_globals
    THEN Raise(NameError)
    ELSE LET a0 == [NoAttrs EXCEPT !.fill = color]
             a1 == IF color = "white" THEN WhiteOutline(a0) ELSE a0
             a2 == [a1 EXCEPT !.transform = DConductor_transform(self)]
         IN  Return("path", a2, DConductor_path(self))

---------------------------------------------------------------------------
(* IConductor *)

IConductor_init(width, height, x, y) ==
    [err |-> "",
     self |-> [cls |-> "IConductor", width |-> width, height |-> height,
              x |-> x, y |-> y]]

IConductor_draw(self, color) ==
    IF color = "white" /\ "OUTLINE_WIDTH" \notin conductors_globals
    THEN Raise(NameError)
    ELSE LET a0 == [NoAttrs EXCEPT !.fill = color]
             a1 == IF color = "white" THEN WhiteOutline(a0) ELSE a0
         IN  Return("rect", a1,
                    <<Cmd("insert", <<self.x - TrueDiv2(self.width),
                                      self.y - TrueDiv2(self.height)>>),
                      Cmd("size", <<self.width, self.height>>)>>)

---------------------------------------------------------------------------
(* LConductor *)

\* the two branches exchanged
LConductor_x_first_swapped(x_sign, y_sign, sweep_dir) ==
    IF x_sign = y_sign THEN sweep_dir = "-" ELSE sweep_dir = "+"

LConductor_x_first(x_sign, y_sign, sweep_dir) ==
    IF x_sign = y_sign THEN sweep_dir = "+" ELSE sweep_dir = "-"

\* an unrecognised sweep_dir taken as '+' instead of raising
LConductor_init_defaulting(width, start, end, sweep_dir) ==
    LET x_sign == copysign(1, end[1] - start[1])
        y_sign == copysign(1, end[2] - start[2])
        dir == IF sweep_dir \in {"+", "-"} THEN sweep_dir ELSE "+"
    IN  [err |-> "",
         self |-> [cls |-> "LConductor", width |-> width,
                   start |-> start, end |-> end, sweep_dir |-> dir,
                   x_sign |-> x_sign, y_sign |-> y_sign,
                   x_first |-> IF x_sign = y_sign THEN dir = "+"
                               ELSE dir = "-"]]

LConductor_init(width, start, end, sweep_dir) ==
    IF sweep_dir \notin {"+", "-"}
    THEN [err |-> InvalidSweepDir, self |-> NoObj]
    ELSE LET x_sign == copysign(1, end[1] - start[1])
             y_sign == copysign(1, end[2] - start[2])
         IN  [err |-> "",
              self |-> [cls |-> "LConductor", width |-> width,
                        start |-> start, end |-> end,
                        sweep_dir |-> sweep_dir,
                        x_sign |-> x_sign, y_sign |-> y_sign,
                        x_first |-> LConductor_x_first(x_sign, y_sign,
                                                       sweep_dir)]]

\* the first segment lengthened, not shortened, by half the width
LConductor_path_lengthened(self) ==
    <<Cmd("M", self.start),
      IF self.x_first
      THEN Cmd("h", <<self.end[1] - self.start[1]
                        + TrueDiv2(self.x_sign * self.width)>>)
      ELSE Cmd("v", <<self.end[2] - self.start[2]
                        + TrueDiv2(self.y_sign * self.width)>>),
      push_arc(<<TrueDiv2(self.width) * self.x_sign,
                 TrueDiv2(self.width) * self.y_sign>>, 0,
               TrueDiv2(self.width), FALSE, self.sweep_dir, FALSE),
      IF self.x_first
      THEN Cmd("V", <<self.end[2]>>)
      ELSE Cmd("H", <<self.end[1]>>)>>

LConductor_path(self) ==
    <<Cmd("M", self.start),
      IF self.x_first
      THEN Cmd("h", <<self.end[1] - self.start[1]
                        - TrueDiv2(self.x_sign * self.width)>>)
      ELSE Cmd("v", <<self.end[2] - self.start[2]
                        - TrueDiv2(self.y_sign * self.width)>>),
      push_arc(<<TrueDiv2(self.width) * self.x_sign,
                 TrueDiv2(self.width) * self.y_sign>>, 0,
               TrueDiv2(self.width), FALSE, self.sweep_dir, FALSE),
      IF self.x_first
      THEN Cmd("V", <<self.end[2]>>)
      ELSE Cmd("H", <<self.end[1]>>)>>

\* the attributes of a stroked, unfilled path
Stroked(color, width) ==
    [NoAttrs EXCEPT !.fill = "none", !.stroke = color,
                    !.stroke_width = [kind |-> "width", v |-> width]]

\* the white style let through
LConductor_draw_unchecked(self, color) ==
    Return("path", Stroked(color, self.width), LConductor_path(self))

LConductor_draw(self, color) ==
    IF color = "white"
    THEN Raise(WhiteL)
    ELSE Return("path", Stroked(color, self.width), LConductor_path(self))

---------------------------------------------------------------------------
(* OConductor *)

OConductor_init(diameter, x, y) ==
    [err |-> "",
     self |-> [cls |-> "OConductor", radius |-> TrueDiv2(diameter),
               x |-> x, y |-> y]]

OConductor_draw(self, color) ==
    IF color = "white" /\ "OUTLINE_WIDTH" \notin conductors_globals
    THEN Raise(NameError)
    ELSE LET a0 == [NoAttrs EXCEPT !.fill = color]
             a1 == IF color = "white" THEN WhiteOutline(a0) ELSE a0
         IN  Return("circle", a1,
                    <<Cmd("center", <<self.x, self.y>>),
                      Cmd("r", <<self.radius>>)>>)

---------------------------------------------------------------------------
(* TConductor *)

TConductor_init(width, crossbar_length, vertical_length, x, y, rotation) ==
    [err |-> "",
     self |-> [cls |-> "TConductor", width |-> width,
               crossbar_length |-> crossbar_length,
               vertical_length |-> vertical_length,
               x |-> x, y |-> y, rotation |-> rotation]]

\* the pen drawn, not moved, back to the middle of the crossbar
TConductor_path_line_back(self) ==
    <<Cmd("M", <<self.x - TrueDiv2(self.crossbar_length), self.y>>),
      Cmd("h", <<self.crossbar_length>>),
      Cmd("l", <<TrueDiv2(-self.crossbar_length), 0>>),
      Cmd("v", <<-(self.vertical_length - TrueDiv2(self.width))>>)>>

TConductor_path(self) ==
    <<Cmd("M", <<self.x - TrueDiv2(self.crossbar_length), self.y>>),
      Cmd("h", <<self.crossbar_length>>),
      Cmd("m", <<TrueDiv2(-self.crossbar_length), 0>>),
      Cmd("v", <<-(self.vertical_length - TrueDiv2(self.width))>>)>>

TConductor_draw(self, color) ==
    IF color = "white"
    THEN Raise(WhiteT)
    ELSE LET a0 == Stroked(color, self.width)
             a1 == IF self.rotation # 0
                   THEN [a0 EXCEPT !.transform =
                            [kind |-> "rotate({} {},{})",
                             args |-> <<self.rotation, self.x, self.y>>]]
                   ELSE a0
         IN  Return("path", a1, TConductor_path(self))

---------------------------------------------------------------------------
(* Angles and points of the arc shapes, kept symbolic *)

\* deg / 180 * math.pi: the fraction deg/180 of pi
radians(deg) == [pi_frac |-> <<deg, 180>>, asin |-> <<>>, half_pi |-> 0]

\* cmath.rect(r, phi): a complex number, as the sum of its polar terms
rect(r, phi) == <<[r |-> r, phi |-> phi]>>

\* z.real, z.imag
real(z) == [part |-> "real", z |-> z]
imag(z) == [part |-> "imag", z |-> z]

\* the tuple (z.real, z.imag)
point(z) == <<real(z), imag(z)>>

---------------------------------------------------------------------------
(* ArcConductor *)

\* equal angles taken as increasing
ArcConductor_angle_dir_inclusive(start_angle, end_angle) ==
    IF start_angle <= end_angle THEN "+" ELSE "-"

ArcConductor_angle_dir(start_angle, end_angle) ==
    IF start_angle < end_angle THEN "+" ELSE "-"

ArcConductor_init(width, radius, start_angle, end_angle) ==
    [err |-> "",
     self |-> [cls |-> "ArcConductor", width |-> width, radius |-> radius,
               start |-> point(rect(radius, radians(start_angle))),
               end |-> point(rect(radius, radians(end_angle))),
               angle_dir |-> ArcConductor_angle_dir(start_angle, end_angle)]]

ArcConductor_path(self) ==
    <<Cmd("M", self.start),
      push_arc(self.end, 0, self.radius, FALSE, self.angle_dir, TRUE)>>

ArcConductor_draw(self, color) ==
    IF color = "white"
    THEN Raise(WhiteArc)
    ELSE Return("path", Stroked(color, self.width), ArcConductor_path(self))

---------------------------------------------------------------------------
(* ArcConductorWithHook *)

\* hook_width is <<>> for None, <<w>> for a given width
ArcConductorWithHook_init(width, radius, start_angle, hook_angle, hook_outer_offset, hook_length, hook_width) ==
    [err |-> "",
     self |-> [cls |-> "ArcConductorWithHook", width |-> width,
               radius |-> radius,
               start_angle |-> radians(start_angle),
               hook_angle |-> radians(hook_angle),
               hook_outer_offset |-> hook_outer_offset,
               hook_length |-> hook_length,
               hook_width |->
                   copysign(IF hook_width = <<>> THEN width
                            ELSE hook_width[1],
                            hook_outer_offset)]]

\* an asin that returns (a NaN) outside its domain
asin_raises_no_domain(num, den) ==
    IF den = 0 THEN ZeroDivisionError ELSE ""

\* math.asin(num / den): what it raises, "" when it returns
asin_raises(num, den) ==
    IF den = 0 THEN ZeroDivisionError
    ELSE IF Abs(num) > Abs(den) THEN MathDomainError
    ELSE ""

\* phi + math.asin(num / den)
plus_asin(phi, num, den) == [phi EXCEPT !.asin = <<num, den>>]

\* phi + math.pi / 2
plus_half_pi(phi) == [phi EXCEPT !.half_pi = 1]

outer_radius(self) == self.radius + TrueDiv2(self.width)
inner_radius(self) == self.radius - TrueDiv2(self.width)

\* a hook_length of 0 let through to the inward branch
ArcConductorWithHook_raises_zero_allowed(self) ==
    LET e_outer == asin_raises(self.hook_outer_offset, outer_radius(self))
        e_inner == asin_raises(self.hook_outer_offset - self.hook_width,
                               inner_radius(self))
    IN  IF e_outer # "" THEN e_outer
        ELSE IF e_inner # "" THEN e_inner
        ELSE IF ~(self.hook_length <= 0) THEN AssertFalse
        ELSE ""

\* the first exception of the geometry part of draw, "" when there is none
ArcConductorWithHook_raises(self) ==
    LET e_outer == asin_raises(self.hook_outer_offset, outer_radius(self))
        e_inner == asin_raises(self.hook_outer_offset - self.hook_width,
                               inner_radius(self))
    IN  IF e_outer # "" THEN e_outer
        ELSE IF e_inner # "" THEN e_inner
        ELSE IF ~(self.hook_length < 0) THEN AssertFalse
        ELSE ""

\* the inner arc swept the same way as the outer one
ArcConductorWithHook_path_same_sweep(self) ==
    LET start_inner == rect(inner_radius(self), self.start_angle)
        start_outer == rect(outer_radius(self), self.start_angle)
        end_outer == rect(outer_radius(self),
                          plus_asin(self.hook_angle, self.hook_outer_offset,
                                    outer_radius(self)))
        end_inner == rect(inner_radius(self),
                          plus_asin(self.hook_angle,
                                    self.hook_outer_offset - self.hook_width,
                                    inner_radius(self)))
        vector_to_hook_inner_corner == rect(self.hook_length, self.hook_angle)
        hook_inner_corner == end_inner \o vector_to_hook_inner_corner
        vector_to_hook_outer_corner ==
            rect(self.hook_width, plus_half_pi(self.hook_angle))
        hook_outer_corner == hook_inner_corner \o vector_to_hook_outer_corner
    IN  <<Cmd("M", point(start_outer)),
          push_arc(point(end_outer), 0, outer_radius(self), FALSE,
                   IF self.hook_outer_offset > 0 THEN "+" ELSE "-", TRUE),
          Cmd("L", point(hook_outer_corner)),
          Cmd("L", point(hook_inner_corner)),
          Cmd("L", point(end_inner)),
          push_arc(point(start_inner), 0, inner_radius(self), FALSE,
                   IF self.hook_outer_offset > 0 THEN "+" ELSE "-", TRUE),
          Cmd("Z", <<>>)>>

ArcConductorWithHook_path(self) ==
    LET start_inner == rect(inner_radius(self), self.start_angle)
        start_outer == rect(outer_radius(self), self.start_angle)
        end_outer == rect(outer_radius(self),
                          plus_asin(self.hook_angle, self.hook_outer_offset,
                                    outer_radius(self)))
        end_inner == rect(inner_radius(self),
                          plus_asin(self.hook_angle,
                                    self.hook_outer_offset - self.hook_width,
                                    inner_radius(self)))
        vector_to_hook_inner_corner == rect(self.hook_length, self.hook_angle)
        hook_inner_corner == end_inner \o vector_to_hook_inner_corner
        vector_to_hook_outer_corner ==
            rect(self.hook_width, plus_half_pi(self.hook_angle))
        hook_outer_corner == hook_inner_corner \o vector_to_hook_outer_corner
    IN  <<Cmd("M", point(start_outer)),
          push_arc(point(end_outer), 0, outer_radius(self), FALSE,
                   IF self.hook_outer_offset > 0 THEN "+" ELSE "-", TRUE),
          Cmd("L", point(hook_outer_corner)),
          Cmd("L", point(hook_inner_corner)),
          Cmd("L", point(end_inner)),
          push_arc(point(start_inner), 0, inner_radius(self), FALSE,
                   IF self.hook_outer_offset > 0 THEN "-" ELSE "+", TRUE),
          Cmd("Z", <<>>)>>

\* a path kept between calls and pushed to again
ArcConductorWithHook_draw_accumulating(self, color) ==
    IF ArcConductorWithHook_raises(self) # ""
    THEN Raise(ArcConductorWithHook_raises(self))
    ELSE IF color = "white" /\ "OUTLINE_WIDTH" \notin conductors_globals
    THEN Raise(NameError)
    ELSE LET a0 == [NoAttrs EXCEPT !.fill = color]
             a1 == IF color = "white" THEN WhiteOutline(a0) ELSE a0
             once == ArcConductorWithHook_path(self)
         IN  Return("path", a1, IF ndraws = 0 THEN once ELSE once \o once)

ArcConductorWithHook_draw(self, color) ==
    IF ArcConductorWithHook_raises(self) # ""
    THEN Raise(ArcConductorWithHook_raises(self))
    ELSE IF color = "white" /\ "OUTLINE_WIDTH" \notin conductors_globals
    THEN Raise(NameError)
    ELSE LET a0 == [NoAttrs EXCEPT !.fill = color]
             a1 == IF color = "white" THEN WhiteOutline(a0) ELSE a0
         IN  Return("path", a1, ArcConductorWithHook_path(self))

---------------------------------------------------------------------------
(* The caller: constructs a shape, then draws it *)

draw(self, color) ==
    CASE self.cls = "DConductor" -> DConductor_draw(self, color)
      [] self.cls = "IConductor" -> IConductor_draw(self, color)
      [] self.cls = "LConductor" -> LConductor_draw(self, color)
      [] self.cls = "OConductor" -> OConductor_draw(self, color)
      [] self.cls = "TConductor" -> TConductor_draw(self, color)
      [] self.cls = "ArcConductor" -> ArcConductor_draw(self, color)
      [] self.cls = "ArcConductorWithHook" ->
            ArcConductorWithHook_draw(self, color)

---------------------------------------------------------------------------
(* make_svgs.py: devices *)

\* Python's None where a shape or a diagram is expected is NoObj or
\* NoDrawing; an optional diameter is <<>> for None and <<d>> for d

\* the roles the devices key their conductors by (members of ConductorType)
DeviceRoles == {"neutral", "ground", "lineX"}

\* what a device holds for one role on one side: no shape, a blade, a pin
DeviceShapes ==
    {NoObj, IConductor_init(2, 2, 2, 0).self, OConductor_init(2, 0, -2).self}

BodyDiameters == {<<>>, <<4>>}

\* the conductors dictionaries: role -> (receptacle shape, plug shape), as
\* the sequence of its items in insertion order, keys distinct
ConductorMaps ==
    UNION {{m \in [1..n -> DeviceRoles \X (DeviceShapes \X DeviceShapes)] :
                \A i, j \in 1..n : i # j => m[i][1] # m[j][1]} :
           n \in 1..MaxConductors}

AttributeError == "AttributeError: 'NoneType' object has no attribute 'draw'"

\* a call on the device returned None
NoDrawing == [err |-> "", elems |-> <<>>, drawing_width |-> <<>>]

\* a call on the device raised
RaiseDrawing(e) == [err |-> e, elems |-> <<>>, drawing_width |-> <<>>]

\* a subclass of NEMABase after its constructor
NEMABase_init(receptacle_diameter, plug_diameter, conductors) ==
    [cls |-> "NEMABase", receptacle_diameter |-> receptacle_diameter,
     plug_diameter |-> plug_diameter, conductors |-> conductors]

\* the circle behind the conductors: white, outlined for a receptacle
background(diameter, outline) ==
    Return("circle",
           IF outline
           THEN [NoAttrs EXCEPT !.fill = "white", !.stroke = "black",
                     !.stroke_width = [kind |-> "OUTLINE_WIDTH", v |-> 0]]
           ELSE [NoAttrs EXCEPT !.fill = "white"],
           <<Cmd("r", <<TrueDiv2(diameter)>>)>>)

\* conductor.draw(drawing): the shape classes of make_svgs.py take no color
\* and draw in black; None has no draw
conductor_draw(conductor) ==
    IF conductor = NoObj THEN Raise(AttributeError)
    ELSE draw(conductor, "black")

\* NEMABase.draw: the background, then every value of conductors in order;
\* drawing_width is diameter + OUTLINE_WIDTH * 2, kept as <<diameter, 2>>
NEMABase_draw(diameter, conductors, outline) ==
    LET outs == [i \in 1..Len(conductors) |-> conductor_draw(conductors[i])]
        raised == {i \in 1..Len(conductors) : outs[i].err # ""}
        first == CHOOSE i \in raised : \A j \in raised : i <= j
    IN  IF raised # {} THEN RaiseDrawing(outs[first].err)
        ELSE [err |-> "",
              elems |-> <<background(diameter, outline)>> \o outs,
              drawing_width |-> <<diameter, 2>>]

\* the shapes of the other side
side_conductors_other_side(self, side) ==
    [i \in 1..Len(self.conductors) |-> self.conductors[i][2][3 - side]]

\* {k: v[side] for k, v in self.conductors.items()}.values(), sides from 1
side_conductors(self, side) ==
    [i \in 1..Len(self.conductors) |-> self.conductors[i][2][side]]

draw_receptacle(self) ==
    IF self.receptacle_diameter = <<>> THEN NoDrawing
    ELSE NEMABase_draw(self.receptacle_diameter[1],
                       side_conductors(self, 1), TRUE)

draw_plug(self) ==
    IF self.plug_diameter = <<>> THEN NoDrawing
    ELSE NEMABase_draw(self.plug_diameter[1],
                       side_conductors(self, 2), FALSE)

Sides == {"R", "P"}

NoFiles == [s \in Sides |-> NoDrawing]

---------------------------------------------------------------------------
(* The state machines *)

NoLog == [c \in Colors |-> NoOut]

Init ==
    /\ obj = NoObj
    /\ call = [cls |-> "None", args |-> <<>>]
    /\ last = [op |-> "none", color |-> "", out |-> NoOut]
    /\ log = NoLog
    /\ ndraws = 0
    /\ device = NoObj
    /\ ret = [op |-> "none", out |-> NoDrawing]
    /\ files = NoFiles
    /\ entered = {}

Construct(cls, args, made) ==
    /\ obj' = made.self
    /\ call' = [cls |-> cls, args |-> args]
    /\ last' = [op |-> "init", color |-> "", out |-> Raise(made.err)]
    /\ log' = NoLog
    /\ ndraws' = 0
    /\ UNCHANGED dvars

NewDConductor ==
    /\ call.cls = "None"
    /\ \E width \in NonNegDims, height \in NonNegDims, x \in Coords,
          y \in Coords, rotation \in Rotations :
           Construct("DConductor", <<width, height, x, y, rotation>>,
                  DConductor_init(width, height, x, y, rotation))

NewIConductor ==
    /\ call.cls = "None"
    /\ \E width \in Dims, height \in Dims, x \in Coords, y \in Coords :
           Construct("IConductor", <<width, height, x, y>>,
                  IConductor_init(width, height, x, y))

NewLConductor ==
    /\ call.cls = "None"
    /\ \E width \in PosDims, start \in Points, end \in Points,
          sweep_dir \in SweepDirs :
           Construct("LConductor", <<width, start, end, sweep_dir>>,
                  LConductor_init(width, start, end, sweep_dir))

NewOConductor ==
    /\ call.cls = "None"
    /\ \E diameter \in Dims, x \in Coords, y \in Coords :
           Construct("OConductor", <<diameter, x, y>>,
                  OConductor_init(diameter, x, y))

NewTConductor ==
    /\ call.cls = "None"
    /\ \E width \in PosDims, crossbar_length \in PosDims,
          vertical_length \in PosDims, x \in Coords, y \in Coords,
          rotation \in Rotations :
           Construct("TConductor",
                  <<width, crossbar_length, vertical_length, x, y, rotation>>,
                  TConductor_init(width, crossbar_length, vertical_length,
                                  x, y, rotation))

NewArcConductor ==
    /\ call.cls = "None"
    /\ \E width \in PosDims, radius \in Radii, start_angle \in Angles,
          end_angle \in Angles :
           Construct("ArcConductor", <<width, radius, start_angle, end_angle>>,
                  ArcConductor_init(width, radius, start_angle, end_angle))

NewArcConductorWithHook ==
    /\ call.cls = "None"
    /\ \E width \in PosDims, radius \in Radii, start_angle \in HookAngles,
          hook_angle \in HookAngles, hook_outer_offset \in Offsets,
          hook_length \in HookLengths, hook_width \in HookWidths :
           Construct("ArcConductorWithHook",
                  <<width, radius, start_angle, hook_angle,
                    hook_outer_offset, hook_length, hook_width>>,
                  ArcConductorWithHook_init(width, radius, start_angle,
                                            hook_angle, hook_outer_offset,
                                            hook_length, hook_width))

Draw ==
    /\ obj # NoObj
    /\ ndraws < MaxDraws
    /\ \E color \in Colors :
        LET out == draw(obj, color)
        IN  /\ last' = [op |-> "draw", color |-> color, out |-> out]
            /\ log' = [log EXCEPT ![color] = out]
    /\ ndraws' = ndraws + 1
    /\ UNCHANGED <<obj, call>>
    /\ UNCHANGED dvars

Next ==
    \/ NewTConductor
    \/ NewArcConductorWithHook
    \/ NewArcConductor
    \/ NewLConductor
    \/ NewDConductor
    \/ NewIConductor
    \/ NewOConductor
    \/ Draw

Spec == Init /\ [][Next]_vars

\* a device subclass is instantiated
NewDevice ==
    /\ device = NoObj
    /\ \E receptacle_diameter \in BodyDiameters,
          plug_diameter \in BodyDiameters, conductors \in ConductorMaps :
           device' = NEMABase_init(receptacle_diameter, plug_diameter,
                                   conductors)
    /\ ret' = [op |-> "init", out |-> NoDrawing]
    /\ files' = NoFiles
    /\ entered' = {}
    /\ UNCHANGED svars

DrawReceptacle ==
    /\ device # NoObj
    /\ ret' = [op |-> "draw_receptacle", out |-> draw_receptacle(device)]
    /\ entered' = entered \cup
                     (IF device.receptacle_diameter # <<>> THEN {"R"} ELSE {})
    /\ UNCHANGED <<device, files>>
    /\ UNCHANGED svars

DrawPlug ==
    /\ device # NoObj
    /\ ret' = [op |-> "draw_plug", out |-> draw_plug(device)]
    /\ entered' = entered \cup
                     (IF device.plug_diameter # <<>> THEN {"P"} ELSE {})
    /\ UNCHANGED <<device, files>>
    /\ UNCHANGED svars

\* NEMABase.save: the receptacle side first; an exception ends the call
Save ==
    /\ device # NoObj
    /\ LET do_r == device.receptacle_diameter # <<>>
           r == draw_receptacle(device)
           do_p == device.plug_diameter # <<>> /\ r.err = ""
           p == draw_plug(device)
       IN  /\ files' = [s \in Sides |->
                           IF s = "R" /\ do_r /\ r.err = "" THEN r
                           ELSE IF s = "P" /\ do_p /\ p.err = "" THEN p
                           ELSE files[s]]
           /\ ret' = [op |-> "save",
                      out |-> IF r.err # "" THEN RaiseDrawing(r.err)
                              ELSE IF do_p /\ p.err # ""
                                   THEN RaiseDrawing(p.err)
                                   ELSE NoDrawing]
           /\ entered' = entered \cup (IF do_r THEN {"R"} ELSE {})
                                  \cup (IF do_p THEN {"P"} ELSE {})
    /\ UNCHANGED device
    /\ UNCHANGED svars

DeviceNext ==
    \/ NewDevice
    \/ DrawReceptacle
    \/ DrawPlug
    \/ Save

DeviceSpec == Init /\ [][DeviceNext]_vars

---------------------------------------------------------------------------
(* Properties *)

\* the shape drawn last was of class cls and draw returned an element
Drawn(cls) == obj.cls = cls /\ last.op = "draw" /\ last.out.err = ""

\* where the pen is after a path of integer coordinates (SVG path semantics)
RECURSIVE PenFrom(_, _, _)
PenFrom(pen, cmds, i) ==
    IF i > Len(cmds) THEN pen
    ELSE LET cm == cmds[i]
             a == cm.args
             next == CASE cm.c = "M" -> <<a[1], a[2]>>
                       [] cm.c = "m" -> <<pen[1] + a[1], pen[2] + a[2]>>
                       [] cm.c = "h" -> <<pen[1] + a[1], pen[2]>>
                       [] cm.c = "v" -> <<pen[1], pen[2] + a[1]>>
                       [] cm.c = "H" -> <<a[1], pen[2]>>
                       [] cm.c = "V" -> <<pen[1], a[1]>>
                       [] cm.c = "a" -> <<pen[1] + a[6], pen[2] + a[7]>>
                       [] cm.c = "A" -> <<a[6], a[7]>>
                       [] OTHER -> pen
         IN  PenFrom(next, cmds, i + 1)

Pen(cmds) == PenFrom(<<0, 0>>, cmds, 1)

\* C1: x_first of every LConductor is (s(dx) = s(dy)) = (sweep_dir = '+'),
\* where dx, dy are the deltas from start to end and s is the sign the
\* constructor derives, copysign(1, d): a zero delta counts as positive
C1_XFirstByCopysign ==
    obj.cls = "LConductor" =>
        /\ obj.sweep_dir = call.args[4]
        /\ obj.x_first = ((copysign(1, call.args[3][1] - call.args[2][1])
                             = copysign(1, call.args[3][2] - call.args[2][2]))
                          = (call.args[4] = "+"))

\* an LConductor with a zero x delta and a positive y delta, swept '+'
C1_Witness ==
    /\ obj.cls = "LConductor"
    /\ obj.end[1] = obj.start[1]
    /\ obj.end[2] > obj.start[2]
    /\ obj.sweep_dir = "+"
    /\ obj.x_first

\* C2: constructing an LConductor with a sweep_dir other than '+' and '-'
\* raises the invalid-argument error and leaves the caller without a shape
C2_InvalidSweepRejected ==
    (call.cls = "LConductor" /\ call.args[4] \notin {"+", "-"}) =>
        /\ obj = NoObj
        /\ last.op = "init"
        /\ last.out.err = InvalidSweepDir
        /\ ndraws = 0

\* the constructor was called with the sweep_dir 'cw' and raised
C2_Witness ==
    /\ call.cls = "LConductor"
    /\ call.args[4] = "cw"
    /\ last.out.err = InvalidSweepDir

\* C3: the path of an LConductor is M start, a relative line on the first
\* axis shortened by width/2, a relative arc of radius width/2 to the offset
\* (x_sign * width/2, y_sign * width/2), an absolute line on the other axis;
\* following it leaves the pen exactly at end
C3_PenEndsAtEnd ==
    Drawn("LConductor") =>
        LET cmds == last.out.cmds
            w2 == TrueDiv2(obj.width)
            dx == obj.end[1] - obj.start[1]
            dy == obj.end[2] - obj.start[2]
        IN  /\ Len(cmds) = 4
            /\ cmds[1] = Cmd("M", obj.start)
            /\ cmds[2] = IF obj.x_first
                         THEN Cmd("h", <<dx - obj.x_sign * w2>>)
                         ELSE Cmd("v", <<dy - obj.y_sign * w2>>)
            /\ cmds[3].c = "a"
            /\ cmds[3].args[1] = w2 /\ cmds[3].args[2] = w2
            /\ cmds[3].args[6] = obj.x_sign * w2
            /\ cmds[3].args[7] = obj.y_sign * w2
            /\ cmds[4].c = IF obj.x_first THEN "V" ELSE "H"
            /\ Pen(cmds) = obj.end

\* an LConductor going left and up, y segment first, has been drawn
C3_Witness ==
    /\ Drawn("LConductor")
    /\ obj.end[1] < obj.start[1]
    /\ obj.end[2] > obj.start[2]
    /\ ~obj.x_first
    /\ Pen(last.out.cmds) = obj.end

\* C4: the direction of an ArcConductor is '+' iff end_angle > start_angle
\* (equal angles give '-'), and its arc command has large-arc 0 and the
\* sweep flag of that direction
C4_ArcDirection ==
    /\ obj.cls = "ArcConductor" =>
           obj.angle_dir = IF call.args[4] > call.args[3] THEN "+" ELSE "-"
    /\ Drawn("ArcConductor") =>
           \A i \in 1..Len(last.out.cmds) :
               last.out.cmds[i].c \in {"a", "A"} =>
                   /\ last.out.cmds[i].args[4] = 0
                   /\ last.out.cmds[i].args[5]
                        = IF call.args[4] > call.args[3] THEN 1 ELSE 0

\* an ArcConductor with equal angles has been drawn, in direction '-'
C4_Witness ==
    /\ Drawn("ArcConductor")
    /\ call.args[3] = call.args[4]
    /\ obj.angle_dir = "-"
    /\ last.out.cmds[2].c = "A"

\* C5: a DConductor has horizontal sides of length width - height/2 and a
\* cap arc of radius height/2 iff width >= height (so also when they are
\* equal), else vertical sides of length height - width/2 and a cap arc of
\* radius width/2
C5_DBranch ==
    Drawn("DConductor") =>
        LET cmds == last.out.cmds
        IN  /\ Len(cmds) = 5
            /\ IF obj.width >= obj.height
               THEN /\ cmds[2] = Cmd("h", <<obj.width - TrueDiv2(obj.height)>>)
                    /\ cmds[3].c = "a"
                    /\ cmds[3].args[1] = TrueDiv2(obj.height)
                    /\ cmds[3].args[6] = 0 /\ cmds[3].args[7] = obj.height
                    /\ cmds[4] = Cmd("h", <<-(obj.width - TrueDiv2(obj.height))>>)
               ELSE /\ cmds[2] = Cmd("v", <<obj.height - TrueDiv2(obj.width)>>)
                    /\ cmds[3].c = "a"
                    /\ cmds[3].args[1] = TrueDiv2(obj.width)
                    /\ cmds[3].args[6] = obj.width /\ cmds[3].args[7] = 0
                    /\ cmds[4] = Cmd("v", <<-(obj.height - TrueDiv2(obj.width))>>)

\* a DConductor with width = height > 0 has been drawn with horizontal sides
C5_Witness ==
    /\ Drawn("DConductor")
    /\ obj.width = obj.height
    /\ obj.width > 0
    /\ last.out.cmds[2].c = "h"

HookInDomain ==
    /\ asin_raises(obj.hook_outer_offset, outer_radius(obj)) = ""
    /\ asin_raises(obj.hook_outer_offset - obj.hook_width,
                   inner_radius(obj)) = ""

\* C7 (as stated): constructing an ArcConductorWithHook with hook_length >= 0
\* raises, and the caller never holds such a shape
C7_RejectedAtConstruction ==
    (call.cls = "ArcConductorWithHook" /\ call.args[6] >= 0) =>
        /\ obj = NoObj
        /\ last.op = "init"
        /\ last.out.err # ""

\* C7 (amended): constructing an ArcConductorWithHook with hook_length >= 0
\* succeeds; it is draw that fails, always and without returning a path:
\* with the assertion of the unimplemented branch when the asin arguments
\* are in their domain, with the error of the asin argument otherwise
C7_RejectedAtDraw ==
    (call.cls = "ArcConductorWithHook" /\ call.args[6] >= 0) =>
        /\ obj.cls = "ArcConductorWithHook"
        /\ obj.hook_length = call.args[6]
        /\ last.op = "init" => last.out.err = ""
        /\ last.op = "draw" =>
               /\ last.out.elem = "" /\ last.out.cmds = <<>>
               /\ last.out.err = IF HookInDomain THEN AssertFalse
                                 ELSE ArcConductorWithHook_raises(obj)
               /\ last.out.err \in
                      {AssertFalse, MathDomainError, ZeroDivisionError}

\* a constructed ArcConductorWithHook with hook_length 0 and asin arguments
\* in their domain, whose draw raised the assertion
C7_Witness ==
    /\ obj.cls = "ArcConductorWithHook"
    /\ obj.hook_length = 0
    /\ HookInDomain
    /\ last.op = "draw"
    /\ last.out.err = AssertFalse

\* the magnitude of hook_outer_offset exceeds outer_radius, or that of
\* hook_outer_offset - hook_width exceeds inner_radius
HookOffsetsExceed ==
    \/ Abs(obj.hook_outer_offset) > outer_radius(obj)
    \/ Abs(obj.hook_outer_offset - obj.hook_width) > inner_radius(obj)

\* C8 (as stated): drawing an ArcConductorWithHook whose offsets exceed the
\* radii raises the domain error and returns no path
C8_DomainError ==
    (obj.cls = "ArcConductorWithHook" /\ last.op = "draw"
       /\ HookOffsetsExceed) =>
        /\ last.out.err = MathDomainError
        /\ last.out.elem = "" /\ last.out.cmds = <<>>

\* C8 (amended): with both radii positive, drawing an ArcConductorWithHook
\* whose offsets exceed the radii raises the domain error before any command
\* is emitted; with an inner radius of zero and the outer offset within the
\* outer radius, it is the division that raises; no draw that raises
\* returns a path
C8_DomainErrorPositiveRadii ==
    (obj.cls = "ArcConductorWithHook" /\ last.op = "draw") =>
        /\ (outer_radius(obj) > 0 /\ inner_radius(obj) > 0
              /\ HookOffsetsExceed) =>
               /\ last.out.err = MathDomainError
               /\ last.out.elem = "" /\ last.out.cmds = <<>>
        /\ (outer_radius(obj) > 0 /\ inner_radius(obj) = 0
              /\ Abs(obj.hook_outer_offset) <= outer_radius(obj)) =>
               last.out.err = ZeroDivisionError
        /\ last.out.err # "" =>
               last.out.elem = "" /\ last.out.cmds = <<>>

\* an ArcConductorWithHook of positive radii whose hook_outer_offset exceeds
\* outer_radius, drawn: the domain error
C8_Witness ==
    /\ obj.cls = "ArcConductorWithHook"
    /\ last.op = "draw"
    /\ inner_radius(obj) > 0
    /\ Abs(obj.hook_outer_offset) > outer_radius(obj)
    /\ last.out.err = MathDomainError

WhiteAssertions == {WhiteL, WhiteT, WhiteArc}

WhiteDraw(cls) == obj.cls = cls /\ last.op = "draw" /\ last.color = "white"

\* C9 (as stated): a white draw of an LConductor, TConductor, ArcConductor
\* or ArcConductorWithHook (of drawable geometry) is rejected: it raises the
\* assertion that white is not supported and returns no path
C9_WhiteRejected ==
    /\ \A cls \in {"LConductor", "TConductor", "ArcConductor"} :
           WhiteDraw(cls) =>
               /\ last.out.err \in WhiteAssertions
               /\ last.out.elem = "" /\ last.out.cmds = <<>>
    /\ (WhiteDraw("ArcConductorWithHook")
          /\ ArcConductorWithHook_raises(obj) = "") =>
           /\ last.out.err \in WhiteAssertions
           /\ last.out.elem = "" /\ last.out.cmds = <<>>

\* C9 (amended): a white draw of an LConductor, TConductor or ArcConductor
\* is rejected by the class's own assertion and returns no path; the draw of
\* an ArcConductorWithHook has no such rejection: with white it never raises
\* an assertion about white, and it raises what its geometry raises with
\* any color
C9_WhiteRejectedByStrokedShapes ==
    /\ WhiteDraw("LConductor") =>
           last.out = Raise(WhiteL)
    /\ WhiteDraw("TConductor") =>
           last.out = Raise(WhiteT)
    /\ WhiteDraw("ArcConductor") =>
           last.out = Raise(WhiteArc)
    /\ WhiteDraw("ArcConductorWithHook") =>
           /\ last.out.err \notin WhiteAssertions
           /\ ArcConductorWithHook_raises(obj) # "" =>
                  last.out = Raise(ArcConductorWithHook_raises(obj))

\* an ArcConductorWithHook of drawable geometry drawn white: no assertion
\* about white was raised
C9_Witness ==
    /\ WhiteDraw("ArcConductorWithHook")
    /\ ArcConductorWithHook_raises(obj) = ""
    /\ last.out.err \notin WhiteAssertions

\* the arc commands of a path
ArcsOf(cmds) == {i \in 1..Len(cmds) : cmds[i].c \in {"a", "A"}}

\* C10 (as stated): a path uses only M, h, v, H, V, a, A and Z, and every
\* arc has rotation 0 and large-arc 0
C10_AllowedCommands ==
    (last.op = "draw" /\ last.out.elem = "path") =>
        LET cmds == last.out.cmds
        IN  /\ \A i \in 1..Len(cmds) :
                   cmds[i].c \in {"M", "h", "v", "H", "V", "a", "A", "Z"}
            /\ \A i \in ArcsOf(cmds) :
                   cmds[i].args[3] = 0 /\ cmds[i].args[4] = 0

\* C10 (amended): a path uses only M, h, v, H, V, a, A and Z, and besides
\* them the relative move m, in the path of a TConductor alone, and the
\* absolute line L, in the path of an ArcConductorWithHook alone; every arc
\* has rotation 0, and large-arc 0 except for the cap of a DConductor, which
\* is pushed without the flag and so with the library's default, 1
C10_AllowedCommandsWithMoveAndLine ==
    (last.op = "draw" /\ last.out.elem = "path") =>
        LET cmds == last.out.cmds
        IN  /\ \A i \in 1..Len(cmds) :
                   \/ cmds[i].c \in {"M", "h", "v", "H", "V", "a", "A", "Z"}
                   \/ cmds[i].c = "m" /\ obj.cls = "TConductor"
                   \/ cmds[i].c = "L" /\ obj.cls = "ArcConductorWithHook"
            /\ \A i \in ArcsOf(cmds) :
                   /\ cmds[i].args[3] = 0
                   /\ cmds[i].args[4] = IF obj.cls = "DConductor" THEN 1 ELSE 0

\* a TConductor has been drawn: its third command is the relative move
C10_Witness ==
    /\ Drawn("TConductor")
    /\ last.out.cmds[3].c = "m"

---------------------------------------------------------------------------
(* C11: the white outline of the filled shapes *)

FilledShapes == {"IConductor", "OConductor", "DConductor"}

\* C11: drawing an IConductor, OConductor or DConductor with color 'white'
\* succeeds and returns an element with fill white, stroke black and a stroke
\* width of OUTLINE_WIDTH; with any other color the element carries no stroke
\* and no stroke width
C11_WhiteFillOutlined ==
    (obj.cls \in FilledShapes /\ last.op = "draw") =>
        /\ last.out.err = ""
        /\ last.out.attrs.fill = last.color
        /\ IF last.color = "white"
           THEN /\ last.out.attrs.stroke = "black"
                /\ last.out.attrs.stroke_width.kind = "OUTLINE_WIDTH"
           ELSE /\ last.out.attrs.stroke = ""
                /\ last.out.attrs.stroke_width = NoWidth

---------------------------------------------------------------------------
(* C12: negative dimensions of IConductor and OConductor *)

\* the constructor call in force passed a negative width, height or diameter
NegativeDimension ==
    \/ call.cls = "IConductor" /\ (call.args[1] < 0 \/ call.args[2] < 0)
    \/ call.cls = "OConductor" /\ call.args[1] < 0

\* C12: constructing an IConductor or OConductor with a negative width,
\* height or diameter is rejected: the constructor raises and binds no
\* object, so no such object is ever drawn
C12_NegativeRejected ==
    NegativeDimension =>
        /\ obj = NoObj
        /\ last.op = "init"
        /\ last.out.err # ""

---------------------------------------------------------------------------
(* C13: which artifacts save writes *)

\* the device holds a shape for every role on the side (1 receptacle, 2 plug)
SideComplete(side) ==
    \A i \in 1..Len(device.conductors) : device.conductors[i][2][side] # NoObj

\* a side whose diameter is None is never drawn: draw_receptacle / draw_plug
\* return None, NEMABase.draw is not entered for it, no file is written for it
AbsentSideUntouched ==
    /\ (device # NoObj /\ device.receptacle_diameter = <<>>) =>
           /\ "R" \notin entered
           /\ files["R"] = NoDrawing
           /\ ret.op = "draw_receptacle" => ret.out = NoDrawing
    /\ (device # NoObj /\ device.plug_diameter = <<>>) =>
           /\ "P" \notin entered
           /\ files["P"] = NoDrawing
           /\ ret.op = "draw_plug" => ret.out = NoDrawing

---------------------------------------------------------------------------
(* C14: what a drawn side consists of *)

IsShape(conductor) == conductor # NoObj

\* the shapes the device holds on a side, absent ones left out, in order
PresentOn(side) == SelectSeq(side_conductors(device, side), IsShape)

\* the diagram is the white background circle followed by one element per
\* shape of shapes, in order
DiagramOf(drawing, shapes) ==
    /\ drawing.err = ""
    /\ Len(drawing.elems) = 1 + Len(shapes)
    /\ drawing.elems[1].elem = "circle"
    /\ drawing.elems[1].attrs.fill = "white"
    /\ \A i \in 1..Len(shapes) :
           /\ drawing.elems[i + 1].elem = draw(shapes[i], "black").elem
           /\ drawing.elems[i + 1].cmds = draw(shapes[i], "black").cmds

\* C14: for a side whose diameter is present, drawing the side succeeds and
\* gives the background circle first, then exactly one element per conductor
\* present on that side, in the mapping's order; an absent shape contributes
\* no element and does not make the drawing fail
C14_PresentConductorsDrawn ==
    /\ (ret.op = "draw_receptacle" /\ device.receptacle_diameter # <<>>) =>
           DiagramOf(ret.out, PresentOn(1))
    /\ (ret.op = "draw_plug" /\ device.plug_diameter # <<>>) =>
           DiagramOf(ret.out, PresentOn(2))

---------------------------------------------------------------------------
(* C15: the color of a conductor's element *)

\* the role -> color table of the specification
RoleColor ==
    [role \in {"ground", "neutral", "lineX", "lineY", "lineZ"} |->
        CASE role = "ground" -> "green"
          [] role = "neutral" -> "gray"
          [] role = "lineX" -> "black"
          [] role = "lineY" -> "red"
          [] role = "lineZ" -> "blue"]

\* the color an element is painted in: its fill, or its stroke when it is
\* an unfilled stroked path
ColorOf(element) ==
    IF element.attrs.fill = "none" THEN element.attrs.stroke
    ELSE element.attrs.fill

\* a diagram returned by draw_receptacle or draw_plug
Rendered == ret.op \in {"draw_receptacle", "draw_plug"} /\ ret.out.elems # <<>>

\* C15: in every rendered diagram the element of each conductor has the
\* color the table gives its role, so conductors of different roles are not
\* all drawn in the one default color
C15_ColoredByRole ==
    Rendered =>
        \A i \in 1..Len(device.conductors) :
            ColorOf(ret.out.elems[i + 1]) = RoleColor[device.conductors[i][1]]

---------------------------------------------------------------------------
(* C16: the commands of the hooked arc *)

\* the points the hooked arc of obj is drawn through
HookStartOuter == rect(outer_radius(obj), obj.start_angle)
HookStartInner == rect(inner_radius(obj), obj.start_angle)
HookEndOuter ==
    rect(outer_radius(obj),
         plus_asin(obj.hook_angle, obj.hook_outer_offset, outer_radius(obj)))
HookEndInner ==
    rect(inner_radius(obj),
         plus_asin(obj.hook_angle, obj.hook_outer_offset - obj.hook_width,
                   inner_radius(obj)))
HookFoldedInner == HookEndInner \o rect(obj.hook_length, obj.hook_angle)
HookFoldedOuter ==
    HookFoldedInner \o rect(obj.hook_width, plus_half_pi(obj.hook_angle))

\* an absolute small arc of radius r to the point z, swept positive or not
IsArcTo(cmd, r, z, positive) ==
    /\ cmd.c = "A"
    /\ cmd.args = <<r, r, 0, 0, IF positive THEN 1 ELSE 0>> \o point(z)

IsTo(cmd, c, z) == cmd.c = c /\ cmd.args = point(z)

\* C16: an ArcConductorWithHook with hook_length < 0 and asin arguments in
\* their domain, drawn in a color its module can draw, emits exactly: move to
\* the outer start, arc of outer_radius to the outer hook corner, line to the
\* folded outer corner, line to the folded inner corner, line to the inner
\* hook corner, arc of inner_radius back to the inner start, close; the
\* first arc sweeps '+' iff hook_outer_offset > 0, the second the other way
C16_HookCommandSequence ==
    (/\ obj.cls = "ArcConductorWithHook"
     /\ last.op = "draw"
     /\ obj.hook_length < 0
     /\ HookInDomain) =>
        /\ last.color # "white" => last.out.err = ""
        /\ last.out.err = "" =>
             LET cmds == last.out.cmds
                 positive == obj.hook_outer_offset > 0
             IN  /\ Len(cmds) = 7
                 /\ IsTo(cmds[1], "M", HookStartOuter)
                 /\ IsArcTo(cmds[2], outer_radius(obj), HookEndOuter, positive)
                 /\ IsTo(cmds[3], "L", HookFoldedOuter)
                 /\ IsTo(cmds[4], "L", HookFoldedInner)
                 /\ IsTo(cmds[5], "L", HookEndInner)
                 /\ IsArcTo(cmds[6], inner_radius(obj), HookStartInner,
                            ~positive)
                 /\ cmds[7] = Cmd("Z", <<>>)

\* an inward hook with a positive outer offset has been drawn: its first arc
\* sweeps positive and its second negative
C16_Witness ==
    /\ Drawn("ArcConductorWithHook")
    /\ obj.hook_length < 0
    /\ obj.hook_outer_offset > 0
    /\ last.out.cmds[2].args[5] = 1
    /\ last.out.cmds[6].args[5] = 0

=============================================================================
